---- MODULE Spec2Model ----
(***************************************************************************)
(* Campaign sender of the HR cold-email automation: the gated sender       *)
(* (email_automation.py, EmailAutomationSystem) and the 24x7 sender        *)
(* (email_automation_24x7.py, EmailAutomation24x7).  One process runs at   *)
(* a time; the contact table and the sent-log file outlive the process.    *)
(***************************************************************************)
EXTENDS Integers, Sequences, FiniteSets, TLC

(* ---- bounds of the model ---- *)
MaxContacts == 2        \* rows of the contact table
MaxBatch == 2           \* largest batch_size passed to run_batch
MaxDay == 2             \* last calendar day the clock reaches
daily_limit == 2        \* config['daily_limit']

(* ---- program constants ---- *)
max_connection_attempts == 3
\* the clock is coarse: datetime.now().hour takes HoursPerDay values a day,
\* of which [business_hours_start, business_hours_end) are business hours
HoursPerDay == 2
business_hours_start == 0
business_hours_end == 1
\* connection_attempts is followed one step past the retry ceiling; every
\* larger value behaves like that one
MaxConnCount == max_connection_attempts + 1
Holidays == {2}         \* the days found in country_holidays

Addresses == {"a@x.com", "A@x.com", "b@x.com"}
NoContact == "none"

VARIABLES
    variant,            \* "gated" | "24x7": which sender class runs
    config,             \* the configuration file: "present" | "missing" |
                        \* "created" (written with defaults by this process) |
                        \* "placeholder" (the defaults, left by an earlier process)
    continuous,         \* main() was given --continuous (the 24x7 sender always
                        \* runs run_continuous)
    delay_range,        \* config min_delay and max_delay: "ordered" when
                        \* min_delay <= max_delay, else "reversed"
    header,             \* the header, as written, of the table's address column
    interrupt,          \* KeyboardInterrupt in this process: "none" | "raised"
                        \* (propagating) | "swallowed" (caught by a bare except)
    contacts,           \* the email column of the contact table, in order
    email_col,          \* the contact table has a column named email
    template,           \* the template file: "valid" | "unknown_placeholder" |
                        \* "missing" | "default" (the one the gated sender writes)
    logFile,            \* sent-log file: [exists, entries]
    today, hour,        \* wall clock: datetime.now().date(), .hour
    sent_today, last_sent_date, smtp_server, connection_attempts,
    pc,                 \* position of the running process
    batch_size, batch_contacts, idx, success_count, batch_error,
    contact, result, outcome,
    callAttempts,       \* transport connects tried in the current send_email
    callSends,          \* sendmail calls made in the current send_email
    callSent,           \* history: sendmail has returned in the current
                        \* send_email
    callStartSent,      \* sent_today when the current send_email was called
    callStartLog,       \* logFile when the current send_email was called
    callReset,          \* the day reset ran in the current send_email
    batchStartSent,     \* sent_today when the current run_batch started
    batchSends,         \* successful sendmail calls in the current run_batch
    batchReset,         \* a day reset ran in the current run_batch
    remaining_seconds,  \* calculate_smart_delay: seconds left of the day
    delay,              \* calculate_smart_delay: its result, -1 before the call
    text,               \* parse_hr_data_improved: the lines of its input, each
                        \* the sequence of its words
    parse_done,         \* parse_hr_data_improved has returned
    parsed_contacts,    \* parse_hr_data_improved: the contacts it returned
    skipped_lines,      \* parse_hr_data_improved: the skipped_lines it returned
    structured_done,    \* parse_structured_hr_data has returned
    structured_contacts, \* parse_structured_hr_data: the contacts it returned
    csv_contacts,       \* save_contacts_to_csv: its argument contacts
    unique_contacts,    \* save_contacts_to_csv: the records written to the file
    duplicates,         \* save_contacts_to_csv: the records it removed
    saves,              \* save_contacts_to_csv: calls made, the second one on
                        \* the records the first one wrote
    template_file,      \* test_email_template: email_template.html, whether
                        \* it exists and the words of its text
    template_result,    \* test_email_template: "none" before the call, then the
                        \* value returned, "True" or "False"
    missing_placeholders, \* test_email_template: the list it reports
    dated,              \* the history of the dates of the sends is kept
    sentOn,             \* history: for each date, the transport sends made on
                        \* it, counted up to daily_limit + 1
    restarted           \* history: a second process has been started

cfgv == <<variant, continuous, delay_range, config, header, contacts, email_col, template>>
sigv == <<interrupt>>
delayv == <<remaining_seconds, delay>>
parsev == <<text, parse_done, parsed_contacts, skipped_lines, structured_done,
           structured_contacts>>
dedupv == <<csv_contacts, unique_contacts, duplicates, saves>>
testv == <<template_file, template_result, missing_placeholders>>
dayh == <<dated, sentOn, restarted>>

\* email_template.html does not exist
NoFile == [exists |-> FALSE, words |-> <<>>]
clockv == <<today, hour>>
instv == <<sent_today, last_sent_date, smtp_server, connection_attempts>>
batchv == <<batch_size, batch_contacts, idx, success_count, batch_error>>
callv == <<contact, result, outcome>>
callh == <<callAttempts, callSends, callSent, callStartSent, callStartLog, callReset>>
batchh == <<batchStartSent, batchSends, batchReset>>
vars == <<cfgv, sigv, delayv, parsev, dedupv, testv, dayh, logFile, clockv, instv, pc, batchv, callv, callh, batchh>>

(* ---- pure functions ---- *)
SeqsUpTo(S, n) == UNION {[1..k -> S] : k \in 0..n}

\* str.lower() on the addresses of the model
Lower(e) == IF e = "A@x.com" THEN "a@x.com" ELSE e

\* {entry['email'] for entry in sent_log}
SentEmails(entries) == {entries[i] : i \in 1..Len(entries)}

\* contacts_df[~contacts_df['email'].isin(sent_emails)]
NotIn(df, S) ==
    LET keep(e) == e \notin S
    IN SelectSeq(df, keep)

get_unsent_contacts(df, log) ==
    IF ~log.exists THEN df
    ELSE NotIn(df, SentEmails(log.entries))

\* DataFrame.head(n)
head(df, n) == SubSeq(df, 1, IF n < Len(df) THEN n ELSE Len(df))

\* datetime.weekday(): day 0 of the model is a Wednesday
Weekday(d) == (d + 2) % 7

is_business_hours(d, h) ==
    IF Weekday(d) >= 5 THEN FALSE
    ELSE IF d \in Holidays THEN FALSE
    ELSE business_hours_start <= h /\ h < business_hours_end

\* the limit test off by one: a send is still allowed at the limit
LimitReachedOffByOne(s, l) == s > l

\* if self.sent_today >= self.daily_limit
LimitReached(s, l) == s >= l

\* if self.connection_attempts < self.max_connection_attempts
MayRetry(attempts) == attempts < max_connection_attempts

ClockAtEnd == today = MaxDay /\ hour = HoursPerDay - 1

\* the clock one position later
NextDay(d, h) == IF h + 1 < HoursPerDay THEN d ELSE d + 1
NextHour(h) == IF h + 1 < HoursPerDay THEN h + 1 ELSE 0

Gated == variant = "gated"

\* str.lower() and str.strip() on the column headers of the model
StrLower(h) ==
    CASE h = "EMAIL" -> "email"
      [] h = " Email " -> " email "
      [] OTHER -> h
StrStrip(h) ==
    CASE h = " email " -> "email"
      [] h = " Email " -> "Email"
      [] OTHER -> h

\* the header lower-cased only
StandardizeNoStrip(h) == StrLower(h)

\* df.columns = df.columns.str.lower().str.strip()
StandardizeColumn(h) == StrStrip(StrLower(h))

\* col in df.columns, for the required column 'email'
HasEmailColumn(h) == StandardizeColumn(h) = "email"

\* load_config: the gated sender writes the default configuration when the
\* file is missing and returns it; the 24x7 sender raises FileNotFoundError
load_config(v, c) ==
    IF v = "gated"
    THEN (IF c \in {"missing", "created"}
          THEN (IF c = "missing" THEN "created" ELSE "placeholder")
          ELSE c)
    ELSE c

(* ---- construction ---- *)
\* the locals of a process that has not run yet, and the files it has not
\* written yet
\* one more send on the date d
CountSend(h, d) == [h EXCEPT ![d] = IF @ <= daily_limit THEN @ + 1 ELSE @]

NotRun ==
    /\ interrupt = "none"
    /\ delay = -1
    /\ parse_done = FALSE /\ parsed_contacts = <<>> /\ skipped_lines = <<>>
    /\ structured_done = FALSE /\ structured_contacts = <<>>
    /\ unique_contacts = <<>> /\ duplicates = <<>> /\ saves = 0
    /\ template_result = "none" /\ missing_placeholders = <<>>
    /\ sentOn = [d \in 0..MaxDay |-> 0] /\ restarted = FALSE
    /\ email_col = HasEmailColumn(header)
    /\ logFile = [exists |-> FALSE, entries |-> <<>>]
    /\ today = 0 /\ hour = 0
    /\ last_sent_date = today
    /\ smtp_server = "none"
    /\ connection_attempts = 0
    /\ pc = IF config = "missing" THEN "stopped" ELSE "idle"
    /\ batch_size = 0 /\ batch_contacts = <<>> /\ idx = 0
    /\ success_count = 0 /\ batch_error = FALSE
    /\ contact = NoContact /\ result = FALSE /\ outcome = "none"
    /\ callAttempts = 0 /\ callSends = 0 /\ callSent = FALSE /\ callStartSent = 0
    /\ callStartLog = [exists |-> FALSE, entries |-> <<>>]
    /\ callReset = FALSE
    /\ batchStartSent = 0 /\ batchSends = 0 /\ batchReset = FALSE

\* __init__
Constructed ==
    /\ sent_today = 0
    /\ NotRun

\* a campaign whose files are in order, run by run_continuous
Init ==
    /\ variant \in {"gated", "24x7"}
    /\ remaining_seconds = 0
    /\ text = <<>>
    /\ csv_contacts = <<>>
    /\ template_file = NoFile
    /\ dated = FALSE
    /\ delay_range = "ordered"
    /\ continuous = TRUE
    /\ config = "present"
    /\ contacts \in SeqsUpTo(Addresses, MaxContacts)
    /\ header \in {"email", "mail"}
    /\ template \in {"valid", "unknown_placeholder"}
    /\ Constructed

Headers == {"email", "EMAIL", " Email ", "mail"}
Templates == {"valid", "unknown_placeholder", "missing"}

\* a campaign for one address of which at most one file is not in order
InitFiles ==
    /\ variant \in {"gated", "24x7"}
    /\ remaining_seconds = 0
    /\ text = <<>>
    /\ csv_contacts = <<>>
    /\ template_file = NoFile
    /\ dated = FALSE
    /\ delay_range = "ordered"
    /\ continuous \in (IF Gated THEN BOOLEAN ELSE {TRUE})
    /\ \E c \in {"present", "missing"} :
          /\ config = load_config(variant, c)
          /\ header \in Headers
          /\ template \in Templates
          /\ \/ header = "email" /\ template = "valid"
             \/ c = "present" /\ template = "valid"
             \/ c = "present" /\ header = "email"
    /\ contacts \in SeqsUpTo({"a@x.com"}, MaxContacts)
    /\ Constructed

\* a campaign whose files are in order and which may be interrupted
InitEnv ==
    /\ variant \in {"gated", "24x7"}
    /\ remaining_seconds = 0
    /\ text = <<>>
    /\ csv_contacts = <<>>
    /\ template_file = NoFile
    /\ dated = FALSE
    /\ delay_range = "ordered"
    /\ continuous = TRUE
    /\ config = "present"
    /\ header = "email"
    /\ template = "valid"
    /\ contacts \in SeqsUpTo(Addresses \ {"b@x.com"}, MaxContacts)
    /\ Constructed

\* the seconds left of the day for which calculate_smart_delay is followed
SampleSeconds == {0, 10, 24, 25, 40, 100, 240, 399, 400, 3000, 86399}

\* the 24x7 sender about to compute a delay, some emails of the day sent
InitDelay ==
    /\ variant = "24x7"
    /\ continuous = TRUE
    /\ config = "present"
    /\ header = "email"
    /\ template = "valid"
    /\ contacts = <<"a@x.com">>
    /\ remaining_seconds \in SampleSeconds
    /\ text = <<>>
    /\ csv_contacts = <<>>
    /\ template_file = NoFile
    /\ dated = FALSE
    /\ delay_range = "ordered"
    /\ sent_today \in 0..(daily_limit - 1)
    /\ NotRun

(* ---- send_email, both variants ---- *)
\* return from send_email to its caller
Return(res, out) ==
    /\ result' = res
    /\ outcome' = out
    /\ pc' = IF Gated THEN "batch_check" ELSE "cont_after"

\* the caller invokes send_email(contact, template)
Call(c) ==
    /\ contact' = c
    /\ result' = result
    /\ outcome' = "none"
    /\ pc' = "limit_check"
    /\ callAttempts' = 0
    /\ callSends' = 0
    /\ callSent' = FALSE
    /\ callStartSent' = sent_today
    /\ callStartLog' = logFile
    /\ callReset' = FALSE

\* the call's history is dropped once the caller has read the result
ForgetCall ==
    /\ callAttempts' = 0
    /\ callSends' = 0
    /\ callSent' = FALSE
    /\ callStartSent' = 0
    /\ callStartLog' = [exists |-> FALSE, entries |-> <<>>]
    /\ callReset' = FALSE

\* send_email without its daily-limit check
SendNoLimitCheck ==
    /\ pc = "limit_check"
    /\ pc' = "day_reset"
    /\ UNCHANGED <<cfgv, sigv, delayv, parsev, dedupv, testv, dayh, logFile, clockv, instv, batchv, callv, callh, batchh>>

\* Check daily limit
SendLimitCheck ==
    /\ pc = "limit_check"
    /\ IF LimitReached(sent_today, daily_limit)
       THEN Return(FALSE, "limit")
       ELSE pc' = "day_reset" /\ UNCHANGED <<result, outcome>>
    /\ UNCHANGED <<cfgv, sigv, delayv, parsev, dedupv, testv, dayh, logFile, clockv, instv, batchv, contact, callh, batchh>>

\* Reset counter if new day
SendDayReset ==
    /\ pc = "day_reset"
    /\ IF today > last_sent_date
       THEN /\ sent_today' = 0
            /\ last_sent_date' = today
            /\ callReset' = TRUE
            /\ batchReset' = TRUE
       ELSE UNCHANGED <<sent_today, last_sent_date, callReset, batchReset>>
    /\ pc' = IF Gated THEN "wait_hours" ELSE "connect"
    /\ UNCHANGED <<cfgv, sigv, delayv, parsev, dedupv, testv, dayh, logFile, clockv, smtp_server, connection_attempts,
                   batchv, callv, callAttempts, callSends, callSent, callStartSent,
                   callStartLog, batchStartSent, batchSends>>

\* wait_for_business_hours: sleep an hour and look again, until inside
WaitForBusinessHours ==
    /\ pc = "wait_hours"
    /\ IF is_business_hours(today, hour)
       THEN pc' = "connect" /\ UNCHANGED clockv
       ELSE /\ ~ClockAtEnd
            /\ today' = NextDay(today, hour)
            /\ hour' = NextHour(hour)
            /\ pc' = pc
    /\ UNCHANGED <<cfgv, sigv, delayv, parsev, dedupv, testv, dayh, logFile, instv, batchv, callv, callh, batchh>>

\* connect_smtp, gated: the existing connection answers noop() and is kept
ConnectReuse ==
    /\ pc = "connect"
    /\ Gated
    /\ smtp_server \in {"open", "broken"}
    /\ pc' = "personalize"
    /\ UNCHANGED <<cfgv, sigv, delayv, parsev, dedupv, testv, dayh, logFile, clockv, instv, batchv, callv, callh, batchh>>

\* connect_smtp: SMTP(), starttls() and login() succeed; the placeholder
\* credentials of the default configuration are no account, login() raises
ConnectOk ==
    /\ pc = "connect"
    /\ config = "present"
    /\ smtp_server' = "open"
    /\ connection_attempts' = 0
    /\ callAttempts' = callAttempts + 1
    /\ pc' = "personalize"
    /\ UNCHANGED <<cfgv, sigv, delayv, parsev, dedupv, testv, dayh, logFile, clockv, sent_today, last_sent_date, batchv,
                   callv, callSends, callSent, callStartSent, callStartLog, callReset,
                   batchh>>

\* connect_smtp: SMTP(), starttls() or login() raises
ConnectFail ==
    /\ pc = "connect"
    /\ smtp_server' \in {"none", "broken"}
    /\ connection_attempts' = IF connection_attempts < MaxConnCount
                               THEN connection_attempts + 1
                               ELSE MaxConnCount
    /\ callAttempts' = callAttempts + 1
    /\ IF MayRetry(connection_attempts')
       THEN pc' = pc /\ UNCHANGED <<result, outcome>>
       ELSE Return(FALSE, "connect")
    /\ UNCHANGED <<cfgv, sigv, delayv, parsev, dedupv, testv, dayh, logFile, clockv, sent_today, last_sent_date, batchv,
                   contact, callSends, callSent, callStartSent, callStartLog, callReset,
                   batchh>>

\* personalize_email: template.format(...) raises on an unknown placeholder
Personalize ==
    /\ pc = "personalize"
    /\ IF template = "valid"
       THEN pc' = "sendmail" /\ UNCHANGED <<result, outcome>>
       ELSE Return(FALSE, "template")
    /\ UNCHANGED <<cfgv, sigv, delayv, parsev, dedupv, testv, dayh, logFile, clockv, instv, batchv, contact, callh, batchh>>

\* sendmail returns and the delay is taken before the log entry is written
SendMailOkDelayFirst ==
    /\ pc = "sendmail"
    /\ smtp_server = "open"
    /\ sent_today' = sent_today + 1
    /\ callSends' = callSends + 1
    /\ callSent' = TRUE
    /\ batchSends' = IF Gated THEN batchSends + 1 ELSE batchSends
    /\ pc' = "delay"
    /\ sentOn' = IF dated THEN CountSend(sentOn, today) ELSE sentOn
    /\ UNCHANGED <<cfgv, sigv, delayv, parsev, dedupv, testv, dated, restarted, logFile, clockv, last_sent_date, smtp_server,
                   connection_attempts, batchv, callv, callAttempts,
                   callStartSent, callStartLog, callReset, batchStartSent,
                   batchReset>>

\* smtp_server.sendmail(...) returns; self.sent_today += 1
SendMailOk ==
    /\ pc = "sendmail"
    /\ smtp_server = "open"
    /\ sent_today' = sent_today + 1
    /\ callSends' = callSends + 1
    /\ callSent' = TRUE
    /\ batchSends' = IF Gated THEN batchSends + 1 ELSE batchSends
    /\ pc' = "log"
    /\ sentOn' = IF dated THEN CountSend(sentOn, today) ELSE sentOn
    /\ UNCHANGED <<cfgv, sigv, delayv, parsev, dedupv, testv, dated, restarted, logFile, clockv, last_sent_date, smtp_server,
                   connection_attempts, batchv, callv, callAttempts,
                   callStartSent, callStartLog, callReset, batchStartSent,
                   batchReset>>

\* the counter incremented before sendmail is known to have succeeded
SendMailFailCounted ==
    /\ pc = "sendmail"
    /\ sent_today' = sent_today + 1
    /\ callSends' = callSends + 1
    /\ Return(FALSE, "transport")
    /\ UNCHANGED callSent
    /\ UNCHANGED <<cfgv, sigv, delayv, parsev, dedupv, testv, dayh, logFile, clockv, last_sent_date, smtp_server,
                   connection_attempts, batchv, contact, callAttempts,
                   callStartSent, callStartLog, callReset, batchh>>

\* smtp_server.sendmail(...) raises
SendMailFail ==
    /\ pc = "sendmail"
    /\ callSends' = callSends + 1
    /\ Return(FALSE, "transport")
    /\ UNCHANGED callSent
    /\ UNCHANGED <<cfgv, sigv, delayv, parsev, dedupv, testv, dayh, logFile, clockv, instv, batchv, contact, callAttempts,
                   callStartSent, callStartLog, callReset, batchh>>

\* log_sent_email: read the log, append the entry, write it back
LogSentEmailOk ==
    /\ pc = "log"
    /\ logFile' = [exists |-> TRUE, entries |-> Append(logFile.entries, contact)]
    /\ pc' = "delay"
    /\ UNCHANGED <<cfgv, sigv, delayv, parsev, dedupv, testv, dayh, clockv, instv, batchv, callv, callh, batchh>>

\* log_sent_email: the log file cannot be opened for writing
LogSentEmailFail ==
    /\ pc = "log"
    /\ Return(FALSE, "logwrite")
    /\ UNCHANGED <<cfgv, sigv, delayv, parsev, dedupv, testv, dayh, logFile, clockv, instv, batchv, contact, callh, batchh>>

\* gated: random delay, sleep, return True; random.randint raises ValueError
\* when min_delay > max_delay and the except clause returns False
DelayGated ==
    /\ pc = "delay"
    /\ Gated
    /\ IF delay_range = "ordered" THEN Return(TRUE, "ok")
       ELSE Return(FALSE, "delay")
    /\ UNCHANGED <<cfgv, sigv, delayv, parsev, dedupv, testv, dayh, logFile, clockv, instv, batchv, contact, callh, batchh>>

\* 24x7: calculate_smart_delay, sleep, return True
DelaySmart ==
    /\ pc = "delay"
    /\ ~Gated
    /\ LET rolled == today > last_sent_date
           s == IF rolled THEN 0 ELSE sent_today
       IN /\ sent_today' = s
          /\ last_sent_date' = IF rolled THEN today ELSE last_sent_date
          /\ IF LimitReached(s, daily_limit)
             THEN /\ today < MaxDay
                  /\ today' = today + 1
                  /\ hour' = 0
             ELSE UNCHANGED clockv
    /\ Return(TRUE, "ok")
    /\ UNCHANGED <<cfgv, sigv, delayv, parsev, dedupv, testv, dayh, logFile, smtp_server, connection_attempts, batchv,
                   contact, callh, batchh>>

(* ---- gated sender: run_batch ---- *)
\* load_email_template, gated: a missing template file is replaced by the
\* default template, whose <style> block holds braces str.format rejects
load_email_template(t) == IF t = "missing" THEN "default" ELSE t

StartBatch(n) ==
    /\ pc = "idle"
    /\ Gated
    /\ batch_size' = n
    /\ idx' = 0
    /\ success_count' = 0
    /\ batchStartSent' = sent_today
    /\ batchSends' = 0
    /\ batchReset' = FALSE
    /\ IF ~email_col
       THEN /\ batch_error' = TRUE
            /\ batch_contacts' = <<>>
            /\ pc' = "batch_end"
            /\ UNCHANGED template
       ELSE LET unsent_contacts == get_unsent_contacts(contacts, logFile)
            IN /\ batch_error' = FALSE
               /\ template' = load_email_template(template)
               /\ batch_contacts' = head(unsent_contacts, n)
               /\ pc' = IF unsent_contacts = <<>> THEN "batch_end" ELSE "batch_loop"
    /\ UNCHANGED <<variant, continuous, delay_range, config, header, contacts, email_col, sigv,
                   delayv, parsev, dedupv, testv, dayh,
                   logFile, clockv, instv, callv, callh>>

\* for _, contact in batch_contacts.iterrows(): send_email(...)
BatchNext ==
    /\ pc = "batch_loop"
    /\ IF idx < Len(batch_contacts)
       THEN /\ Call(batch_contacts[idx + 1])
            /\ idx' = idx + 1
       ELSE /\ pc' = "batch_end"
            /\ UNCHANGED <<idx, callv, callh>>
    /\ UNCHANGED <<cfgv, sigv, delayv, parsev, dedupv, testv, dayh, logFile, clockv, instv, batch_size, batch_contacts,
                   success_count, batch_error, batchh>>

\* the batch loop left at the first failed send
BatchCheckStopOnFailure ==
    /\ pc = "batch_check"
    /\ success_count' = IF result THEN success_count + 1 ELSE success_count
    /\ pc' = IF ~result \/ LimitReached(sent_today, daily_limit)
             THEN "batch_end" ELSE "batch_loop"
    /\ contact' = NoContact /\ result' = FALSE /\ outcome' = "none"
    /\ ForgetCall
    /\ UNCHANGED <<cfgv, sigv, delayv, parsev, dedupv, testv, dayh, logFile, clockv, instv, batch_size, batch_contacts,
                   idx, batch_error, batchh>>

\* success_count += 1; if self.sent_today >= self.daily_limit: break
BatchCheck ==
    /\ pc = "batch_check"
    /\ success_count' = IF result THEN success_count + 1 ELSE success_count
    /\ pc' = IF LimitReached(sent_today, daily_limit) THEN "batch_end" ELSE "batch_loop"
    /\ contact' = NoContact /\ result' = FALSE /\ outcome' = "none"
    /\ ForgetCall
    /\ UNCHANGED <<cfgv, sigv, delayv, parsev, dedupv, testv, dayh, logFile, clockv, instv, batch_size, batch_contacts,
                   idx, batch_error, batchh>>

\* finally: self.smtp_server.quit(); run_batch returns to the schedule loop
\* of run_continuous, or to main(), which ends
BatchFinally ==
    /\ pc = "batch_end"
    /\ smtp_server' = IF smtp_server = "none" THEN "none" ELSE "closed"
    /\ pc' = IF continuous THEN "idle" ELSE "stopped"
    /\ batch_size' = 0 /\ batch_contacts' = <<>> /\ idx' = 0
    /\ success_count' = 0 /\ batch_error' = FALSE
    /\ batchStartSent' = 0 /\ batchSends' = 0 /\ batchReset' = FALSE
    /\ UNCHANGED <<cfgv, sigv, delayv, parsev, dedupv, testv, dayh, logFile, clockv, sent_today, last_sent_date,
                   connection_attempts, callv, callh>>

(* ---- 24x7 sender: calculate_smart_delay ---- *)
Max(a, b) == IF a >= b THEN a ELSE b
Min(a, b) == IF a <= b THEN a ELSE b

\* the values random.randint(int(min_delay), int(max_delay)) can return, for
\* rs = remaining_seconds and re = remaining_emails > 0.  With
\* optimal_delay = rs / re, min_delay = max(30, optimal_delay * 0.75) and
\* max_delay = min(300, optimal_delay * 1.25) are compared as multiples of
\* 1 / (4 * re); int() rounds them down.
calculate_smart_delay(rs, re) ==
    LET min4 == Max(30 * 4 * re, 3 * rs)
        max4 == Min(300 * 4 * re, 5 * rs)
    IN IF min4 >= max4
       THEN 30..120
       ELSE (min4 \div (4 * re))..(max4 \div (4 * re))

\* delay = self.calculate_smart_delay(), below the daily limit
CalcSmartDelay ==
    /\ delay = -1
    /\ ~LimitReached(sent_today, daily_limit)
    /\ delay' \in calculate_smart_delay(remaining_seconds, daily_limit - sent_today)
    /\ UNCHANGED <<cfgv, sigv, remaining_seconds, parsev, dedupv, testv, dayh, logFile, clockv,
                   instv, pc, batchv, callv, callh, batchh>>

(* ---- 24x7 sender: run_continuous ---- *)
\* load_hr_contacts and load_email_template raise out of run_continuous
StartContinuous ==
    /\ pc = "idle"
    /\ ~Gated
    /\ pc' = IF email_col /\ template # "missing" THEN "cont_loop" ELSE "stopped"
    /\ UNCHANGED <<cfgv, sigv, delayv, parsev, dedupv, testv, dayh, logFile, clockv, instv, batchv, callv, callh, batchh>>

ContLoop ==
    /\ pc = "cont_loop"
    /\ LET unsent_contacts == get_unsent_contacts(contacts, logFile)
       IN IF unsent_contacts = <<>>
          THEN /\ pc' = "cont_end"
               /\ UNCHANGED <<clockv, callv, callh>>
          ELSE IF LimitReached(sent_today, daily_limit)
          THEN /\ pc' = "cont_sleep"
               /\ UNCHANGED <<clockv, callv, callh>>
          ELSE /\ Call(unsent_contacts[1])
               /\ UNCHANGED clockv
    /\ UNCHANGED <<cfgv, sigv, delayv, parsev, dedupv, testv, dayh, logFile, instv, batchv, batchh>>

\* time.sleep(wait_seconds); continue: the loop wakes at the start of the
\* next day.  The days after MaxDay are not told apart from MaxDay, which
\* keeps every comparison of dates as long as last_sent_date is before it.
ContSleep ==
    /\ pc = "cont_sleep"
    /\ IF today < MaxDay THEN today' = today + 1
       ELSE last_sent_date < today /\ today' = today
    /\ hour' = 0
    /\ pc' = "cont_loop"
    /\ UNCHANGED <<cfgv, sigv, delayv, parsev, dedupv, testv, dayh, logFile, instv, batchv, callv, callh, batchh>>

\* if not success: time.sleep(300)
ContAfter ==
    /\ pc = "cont_after"
    /\ pc' = "cont_loop"
    /\ outcome' = "none"
    /\ ForgetCall
    /\ UNCHANGED <<cfgv, sigv, delayv, parsev, dedupv, testv, dayh, logFile, clockv, instv, batchv, contact, result, batchh>>

ContFinally ==
    /\ pc = "cont_end"
    /\ smtp_server' = IF smtp_server = "none" THEN "none" ELSE "closed"
    /\ pc' = "stopped"
    /\ UNCHANGED <<cfgv, sigv, delayv, parsev, dedupv, testv, dayh, logFile, clockv, sent_today, last_sent_date,
                   connection_attempts, batchv, callv, callh, batchh>>

(* ---- interrupt ---- *)
\* the frames of send_email and of the run are left
DropFrames ==
    /\ contact' = NoContact /\ result' = FALSE /\ outcome' = "none"
    /\ ForgetCall
    /\ batch_size' = 0 /\ batch_contacts' = <<>> /\ idx' = 0
    /\ success_count' = 0 /\ batch_error' = FALSE
    /\ batchStartSent' = 0 /\ batchSends' = 0 /\ batchReset' = FALSE

\* the KeyboardInterrupt leaves the run through its finally block, which
\* closes the connection, and ends the process
Raise ==
    /\ interrupt' = "raised"
    /\ smtp_server' = IF smtp_server = "none" THEN "none" ELSE "closed"
    /\ pc' = "stopped"
    /\ DropFrames

\* KeyboardInterrupt is raised where the process stands.  It is no Exception,
\* so except Exception lets it through to the finally block of the run; the
\* bare except clauses around noop() / quit() in connect_smtp, around
\* json.load() in log_sent_email and around quit() in the finally blocks
\* catch it.  One interrupt is followed per process.
Interrupt ==
    /\ interrupt = "none"
    /\ pc # "stopped"
    /\ \/ \* raised in a place no bare except covers
          /\ pc \notin {"log", "batch_end", "cont_end"}
          /\ Raise
          /\ UNCHANGED logFile
       \/ \* connect_smtp, in noop() (gated) or quit() (24x7) of the old connection
          /\ pc = "connect" /\ smtp_server # "none"
          /\ interrupt' = "swallowed"
          /\ smtp_server' = "none"
          /\ UNCHANGED <<logFile, pc, batchv, callv, callh, batchh>>
       \/ \* log_sent_email, in json.load(): sent_log = [] and the write follows
          /\ pc = "log" /\ logFile.exists
          /\ interrupt' = "swallowed"
          /\ logFile' = [exists |-> TRUE, entries |-> <<contact>>]
          /\ pc' = "delay"
          /\ UNCHANGED <<smtp_server, batchv, callv, callh, batchh>>
       \/ \* log_sent_email, in json.dump(): open(.., 'w') has emptied the file
          /\ pc = "log"
          /\ Raise
          /\ logFile' = [exists |-> TRUE, entries |-> <<>>]
       \/ \* finally, in quit(): except: pass, the connection is not closed
          /\ pc \in {"batch_end", "cont_end"} /\ smtp_server \in {"open", "broken"}
          /\ interrupt' = "swallowed"
          /\ pc' = IF Gated /\ continuous THEN "idle" ELSE "stopped"
          /\ DropFrames
          /\ UNCHANGED <<logFile, smtp_server>>
    /\ UNCHANGED <<cfgv, delayv, parsev, dedupv, testv, dayh, clockv, sent_today, last_sent_date,
                   connection_attempts>>

(* ---- environment ---- *)
\* The positions at which the clock is read next (by the program, or by a
\* property that dates a transport send).  The steps in between read no
\* clock, so time passing there is the same as time passing at the next of
\* these positions.
ClockPoints == {"idle", "stopped", "limit_check", "wait_hours", "sendmail",
                "delay", "cont_loop"}

\* wall-clock time passes
Tick ==
    /\ ~ClockAtEnd
    /\ pc \in ClockPoints
    /\ today' = NextDay(today, hour)
    /\ hour' = NextHour(hour)
    /\ UNCHANGED <<cfgv, sigv, delayv, parsev, dedupv, testv, dayh, logFile, instv, pc, batchv, callv, callh, batchh>>

\* the process has ended and a new one is started: __init__
Restart ==
    /\ pc \in {"idle", "stopped"}
    /\ config' = load_config(variant, config)
    /\ interrupt' = "none"
    /\ sent_today' = 0
    /\ last_sent_date' = today
    /\ smtp_server' = "none"
    /\ connection_attempts' = 0
    /\ pc' = IF config' = "missing" THEN "stopped" ELSE "idle"
    /\ batch_size' = 0 /\ batch_contacts' = <<>> /\ idx' = 0
    /\ success_count' = 0 /\ batch_error' = FALSE
    /\ contact' = NoContact /\ result' = FALSE /\ outcome' = "none"
    /\ ForgetCall
    /\ batchStartSent' = 0 /\ batchSends' = 0 /\ batchReset' = FALSE
    /\ restarted' = dated
    /\ UNCHANGED <<variant, continuous, delay_range, header, contacts, email_col, template, logFile,
                   delayv, parsev, dedupv, testv, dated, sentOn,
                   clockv>>

Next ==
    \/ \E n \in 1..MaxBatch : StartBatch(n)
    \/ BatchNext
    \/ BatchCheck
    \/ BatchFinally
    \/ StartContinuous
    \/ ContLoop
    \/ ContSleep
    \/ ContAfter
    \/ ContFinally
    \/ SendLimitCheck
    \/ SendDayReset
    \/ WaitForBusinessHours
    \/ ConnectReuse
    \/ ConnectOk
    \/ ConnectFail
    \/ Personalize
    \/ SendMailOk
    \/ SendMailFail
    \/ LogSentEmailOk
    \/ LogSentEmailFail
    \/ DelayGated
    \/ DelaySmart
    \/ Tick
    \/ Restart

Spec == Init /\ [][Next]_vars

NextDelay == CalcSmartDelay

SpecDelay == InitDelay /\ [][NextDelay]_vars

SpecFiles == InitFiles /\ [][Next]_vars

NextEnv ==
    \/ Next
    \/ Interrupt

SpecEnv == InitEnv /\ [][NextEnv]_vars

\* a table with more contacts than daily_limit, the files in order, and the
\* dates of the sends kept
InitDay ==
    /\ variant \in {"gated", "24x7"}
    /\ remaining_seconds = 0
    /\ text = <<>>
    /\ csv_contacts = <<>>
    /\ template_file = NoFile
    /\ dated = TRUE
    /\ continuous \in (IF Gated THEN BOOLEAN ELSE {TRUE})
    /\ delay_range \in (IF Gated THEN {"ordered", "reversed"} ELSE {"ordered"})
    /\ config = "present"
    /\ contacts = <<"a@x.com", "b@x.com", "c@x.com">>
    /\ header = "email"
    /\ template = "valid"
    /\ Constructed

SpecDay == InitDay /\ [][Next]_vars

\* the 24x7 variant before run_continuous, on a table of at most
\* daily_limit + 1 contacts
InitCampaign ==
    /\ variant = "24x7"
    /\ remaining_seconds = 0
    /\ text = <<>>
    /\ csv_contacts = <<>>
    /\ template_file = NoFile
    /\ dated = TRUE
    /\ delay_range = "ordered"
    /\ continuous = TRUE
    /\ config = "present"
    /\ contacts \in SeqsUpTo(Addresses, MaxContacts)
                       \cup {<<"a@x.com", "b@x.com", "c@x.com">>}
    /\ header = "email"
    /\ template = "valid"
    /\ Constructed

\* run_continuous when the connection, the transport and the log write
\* succeed and time passes by the sleeps of the program
NextCampaign ==
    \/ StartContinuous
    \/ ContLoop
    \/ ContSleep
    \/ ContAfter
    \/ ContFinally
    \/ SendLimitCheck
    \/ SendDayReset
    \/ ConnectOk
    \/ Personalize
    \/ SendMailOk
    \/ LogSentEmailOk
    \/ DelaySmart

\* every step of the program that can be taken is taken in the end
SpecCampaign == InitCampaign /\ [][NextCampaign]_vars /\ WF_vars(NextCampaign)

(***************************************************************************)
(* improved_pdf_converter.py: parse_hr_data_improved.  A line of the       *)
(* extracted text is the sequence of its words; a blank line has none.     *)
(***************************************************************************)

\* Lines of each kind the parser tells apart: a numbered data row, a data
\* row whose first word begins with "Name", the table header, a row without
\* an address, a blank line, a row whose first address has a character the
\* pattern's class leaves out, a row whose only address has a one-letter top
\* level domain, a row with two addresses, and a row in columns whose
\* address shares its column with a word.
SampleLines ==
    { <<"1", "John", "J.Doe@X.Com", "Acme">>,
      <<"Nameeta", "n@x.com", "Acme">>,
      <<"SNo", "Name", "Email">>,
      <<"John", "Acme">>,
      <<>>,
      <<"o'brien@x.com", "J.Doe@X.Com">>,
      <<"hr@y.c">>,
      <<"J.Doe@X.Com", "n@x.com">>,
      <<"John", "J.Doe@X.Com", "  ", "Acme">> }

\* line.startswith('SNo'), by word
StartsWithSNo(w) == w = "SNo"

\* line.lower().startswith('name'), by word
LowerStartsWithName(w) == w \in {"Name", "Nameeta"}

\* the filter of lines 37-40: stripped line not empty, not a header
IsDataLine(line) ==
    /\ line # <<>>
    /\ ~StartsWithSNo(line[1])
    /\ ~LowerStartsWithName(line[1])

\* the match of email_pattern inside one word, "" when there is none: the
\* class [A-Za-z0-9._%+-] of the local part has no apostrophe, and the top
\* level domain needs two letters
PatternMatch(w) ==
    CASE w = "J.Doe@X.Com" -> "J.Doe@X.Com"
      [] w = "n@x.com" -> "n@x.com"
      [] w = "o'brien@x.com" -> "brien@x.com"
      [] w = "john.smith@acme.com" -> "john.smith@acme.com"
      [] OTHER -> ""

RECURSIVE re_findall(_)
\* re.findall(email_pattern, line, re.IGNORECASE): the matches, left to right
re_findall(line) ==
    IF line = <<>> THEN <<>>
    ELSE LET m == PatternMatch(Head(line))
         IN (IF m = "" THEN <<>> ELSE <<m>>) \o re_findall(Tail(line))

\* '@' in email and '.' in email.split('@')[1], true of every match of the
\* pattern
HasAtAndDot(email) ==
    email \in {"J.Doe@X.Com", "n@x.com", "brien@x.com", "john.smith@acme.com"}

\* a run of two or more spaces between two words of a line
Gap == "  "

\* the marker put in the place of the email
Sentinel == "|||EMAIL|||"

\* str.isdigit() on the words of the model
IsDigit(w) == w \in {"1", "7", "34", "56"}

\* any(title_word in potential_name.lower() ...), by word
HasTitleWord(w) == w \in {"Recruiter"}

\* line.replace(email, '|||EMAIL|||'), by word: a word that only ends with
\* the match keeps what stands before it
ReplaceEmail(w, email) ==
    IF w = email THEN Sentinel
    ELSE IF w = "o'brien@x.com" /\ email = "brien@x.com" THEN "o'|||EMAIL|||"
    ELSE w

\* the words of a line with the email replaced
LineParts(line, email) == [i \in 1..Len(line) |-> ReplaceEmail(line[i], email)]

RECURSIVE SplitOnGaps(_, _)
\* re.split(r'\s{2,}', line_parts), empty pieces left out: each part is the
\* sequence of its words; cur is the part being read
SplitOnGaps(ws, cur) ==
    IF ws = <<>> THEN (IF cur = <<>> THEN <<>> ELSE <<cur>>)
    ELSE IF Head(ws) = Gap
         THEN (IF cur = <<>> THEN <<>> ELSE <<cur>>) \o SplitOnGaps(Tail(ws), <<>>)
         ELSE SplitOnGaps(Tail(ws), Append(cur, Head(ws)))

RECURSIVE SplitWords(_, _)
\* the loop over line_parts.split() of lines 74-94, current_part being cur:
\* the marker and a number met with an empty current_part are parts of their
\* own, every other word joins current_part
SplitWords(ws, cur) ==
    IF ws = <<>> THEN (IF cur = <<>> THEN <<>> ELSE <<cur>>)
    ELSE IF Head(ws) = Sentinel
         THEN (IF cur = <<>> THEN <<>> ELSE <<cur>>) \o <<<<Sentinel>>>>
                  \o SplitWords(Tail(ws), <<>>)
         ELSE IF IsDigit(Head(ws)) /\ cur = <<>>
         THEN <<<<Head(ws)>>>> \o SplitWords(Tail(ws), <<>>)
         ELSE SplitWords(Tail(ws), Append(cur, Head(ws)))

\* parts, lines 66-94
Parts(line, email) ==
    LET line_parts == LineParts(line, email)
    IN IF \E i \in 1..Len(line_parts) : line_parts[i] = Gap
       THEN SplitOnGaps(line_parts, <<>>)
       ELSE SplitWords(line_parts, <<>>)

\* the position of the first part equal to the marker, 0 when there is none
\* (email_index + 1, lines 102-106)
EmailIndex(parts) ==
    IF \E i \in 1..Len(parts) : parts[i] = <<Sentinel>>
    THEN CHOOSE i \in 1..Len(parts) :
             /\ parts[i] = <<Sentinel>>
             /\ \A j \in 1..(i - 1) : parts[j] # <<Sentinel>>
    ELSE 0

\* parts[0].isdigit()
IsSerial(parts) == parts # <<>> /\ Len(parts[1]) = 1 /\ IsDigit(parts[1][1])

RECURSIVE JoinParts(_)
\* ' '.join(parts), as the sequence of all the words
JoinParts(parts) ==
    IF parts = <<>> THEN <<>> ELSE Head(parts) \o JoinParts(Tail(parts))

RECURSIVE JoinWords(_)
\* the string of a sequence of words, one space between two words
JoinWords(ws) ==
    IF ws = <<>> THEN ""
    ELSE IF Len(ws) = 1 THEN ws[1]
    ELSE ws[1] \o " " \o JoinWords(Tail(ws))

\* the trim left out
KeepLeadingDigits(ws) == ws

\* re.sub(r'^\d+\s*', '', field).strip() on a field given by its words, none
\* of which mixes leading digits with other characters
TrimLeadingDigits(ws) ==
    IF ws # <<>> /\ IsDigit(ws[1]) THEN Tail(ws) ELSE ws

\* sno, name, title and company of lines 96-153, name, title and company as
\* sequences of words
Fields(line, email) ==
    LET parts0 == Parts(line, email)
        index0 == EmailIndex(parts0)
        serial == IsSerial(parts0)
        sno == IF serial THEN parts0[1][1] ELSE ""
        parts == IF serial THEN Tail(parts0) ELSE parts0
        email_index == IF serial /\ index0 > 0 THEN index0 - 1 ELSE index0
        before_email == SubSeq(parts, 1, email_index - 1)
        after_email == SubSeq(parts, email_index + 1, Len(parts))
        one_is_title == /\ Len(before_email) = 1
                        /\ \E i \in 1..Len(before_email[1]) :
                               HasTitleWord(before_email[1][i])
        name == IF email_index = 0 \/ before_email = <<>> \/ one_is_title
                THEN <<"HR", "Manager">>
                ELSE before_email[1]
        title == IF email_index = 0 \/ before_email = <<>> THEN <<"HR", "Representative">>
                 ELSE IF Len(before_email) = 1
                 THEN (IF one_is_title THEN before_email[1]
                       ELSE <<"HR", "Representative">>)
                 ELSE JoinParts(Tail(before_email))
        company == IF email_index = 0 \/ after_email = <<>>
                   THEN <<"Unknown", "Company">>
                   ELSE JoinParts(after_email)
    IN [sno |-> sno,
        name |-> JoinWords(TrimLeadingDigits(name)),
        title |-> JoinWords(TrimLeadingDigits(title)),
        company |-> JoinWords(TrimLeadingDigits(company))]

\* the contact of lines 164-170
Contact(f, email, line_num) ==
    [company |-> IF f.company # "" /\ f.company # "Unknown Company"
                 THEN f.company
                 ELSE "Company_" \o (IF f.sno # "" THEN f.sno
                                     ELSE ToString(line_num)),
     hr_name |-> IF f.name # "" THEN f.name ELSE "HR Manager",
     email |-> email,
     position |-> IF f.title # "" THEN f.title ELSE "HR Representative"]

\* one iteration of the loop over data_lines; line_num counts data lines
ParseLine(line, line_num) ==
    LET emails == re_findall(line)
    IN IF emails = <<>>
       THEN [kind |-> "skipped", line_num |-> line_num, content |-> line,
             reason |-> "No email found", contact |-> <<>>]
       ELSE IF ~HasAtAndDot(emails[1])
       THEN [kind |-> "skipped", line_num |-> line_num, content |-> line,
             reason |-> "Invalid email", contact |-> <<>>]
       ELSE [kind |-> "contact", line_num |-> line_num, content |-> line,
             reason |-> "",
             contact |-> Contact(Fields(line, emails[1]), emails[1], line_num)]

IsContact(r) == r.kind = "contact"

IsSkipped(r) == r.kind = "skipped"

\* the pair (contacts, skipped_lines) the function returns for the lines t
parse_hr_data_improved(t) ==
    LET data_lines == SelectSeq(t, IsDataLine)
        parsed == [n \in 1..Len(data_lines) |-> ParseLine(data_lines[n], n)]
        cs == SelectSeq(parsed, IsContact)
        sk == SelectSeq(parsed, IsSkipped)
    IN [contacts |-> [k \in 1..Len(cs) |-> cs[k].contact],
        skipped_lines |-> [k \in 1..Len(sk) |->
                              [line_num |-> sk[k].line_num,
                               content |-> sk[k].content,
                               reason |-> sk[k].reason]]]

(***************************************************************************)
(* auto_pdf_converter.py: parse_structured_hr_data, on the same lines.     *)
(***************************************************************************)

\* line.startswith('Name'), by word
StartsWithName(w) == w \in {"Name", "Nameeta"}

\* the filter of lines 35-38
IsStructuredDataLine(line) ==
    /\ line # <<>>
    /\ ~StartsWithSNo(line[1])
    /\ ~StartsWithName(line[1])

\* the marker of parse_structured_hr_data
Marker == "|EMAIL|"

\* line.replace(email, '|EMAIL|'), by word
ReplaceByMarker(w, email) ==
    IF w = email THEN Marker
    ELSE IF w = "o'brien@x.com" /\ email = "brien@x.com" THEN "o'|EMAIL|"
    ELSE w

\* line_without_email.split(): the words, the gaps gone
StructuredParts(line, email) ==
    LET words == SelectSeq(line, LAMBDA w : w # Gap)
    IN [i \in 1..Len(words) |-> ReplaceByMarker(words[i], email)]

\* the position of the first marker among parts, 0 when there is none
\* (email_pos + 1, lines 68-72)
EmailPos(parts) ==
    IF \E i \in 1..Len(parts) : parts[i] = Marker
    THEN CHOOSE i \in 1..Len(parts) :
             /\ parts[i] = Marker
             /\ \A j \in 1..(i - 1) : parts[j] # Marker
    ELSE 0

\* the contact of lines 56-109 for a line with a match
StructuredContact(line, email, line_num) ==
    LET parts0 == StructuredParts(line, email)
        parts == IF parts0 # <<>> /\ IsDigit(parts0[1]) THEN Tail(parts0)
                 ELSE parts0
        pos == EmailPos(parts)
        before_email == SubSeq(parts, 1, pos - 1)
        after_email == SubSeq(parts, pos + 1, Len(parts))
        found == pos > 1
        company == IF found /\ after_email # <<>> THEN after_email
                   ELSE <<"Unknown", "Company">>
        name == IF ~found THEN <<"HR", "Manager">>
                ELSE IF Len(before_email) >= 2 THEN SubSeq(before_email, 1, 2)
                ELSE before_email
        title == IF found /\ Len(before_email) > 2
                 THEN SubSeq(before_email, 3, Len(before_email))
                 ELSE <<"HR", "Representative">>
        name_s == JoinWords(TrimLeadingDigits(name))
        company_s == JoinWords(TrimLeadingDigits(company))
        title_s == JoinWords(title)
    IN [company |-> IF company_s # "Unknown Company" THEN company_s
                    ELSE "Company_" \o ToString(line_num),
        hr_name |-> IF name_s # "" THEN name_s ELSE "HR Manager",
        email |-> email,
        position |-> IF title_s # "" THEN title_s ELSE "HR Representative"]

\* the list of contacts the function returns for the lines t: a line without
\* a match is passed over
parse_structured_hr_data(t) ==
    LET data_lines == SelectSeq(t, IsStructuredDataLine)
        numbers == SelectSeq([n \in 1..Len(data_lines) |-> n],
                             LAMBDA n : /\ re_findall(data_lines[n]) # <<>>
                                        /\ HasAtAndDot(re_findall(data_lines[n])[1]))
    IN [k \in 1..Len(numbers) |->
           StructuredContact(data_lines[numbers[k]],
                             re_findall(data_lines[numbers[k]])[1], numbers[k])]

\* the number of lines of the extracted text
MaxLines == 2

\* the columns a table row may hold before its email: a name, a title and
\* a number
PreCells == {<<"John", "Smith">>, <<"Senior", "Recruiter">>, <<"34">>}

\* the columns a table row may hold after its email
PostCells == {<<"Acme", "Corp">>, <<"56">>, <<"Unknown", "Company">>}

RECURSIVE JoinCells(_, _)
\* the words of a row made of the columns cells, sep between two columns
JoinCells(cells, sep) ==
    IF cells = <<>> THEN <<>>
    ELSE IF Len(cells) = 1 THEN cells[1]
    ELSE cells[1] \o sep \o JoinCells(Tail(cells), sep)

\* table rows: an optional serial number, up to two columns, the email and
\* at most one column after it, the columns one space or a gap apart
TableLines ==
    { JoinCells(sno \o pre \o <<<<"john.smith@acme.com">>>> \o post, sep) :
        sno \in {<<>>, <<<<"1">>>>, <<<<"7">>>>},
        pre \in SeqsUpTo(PreCells, 2),
        post \in SeqsUpTo(PostCells, 1),
        sep \in {<<>>, <<Gap>>} }

\* a row that gives a contact
PlainRow == <<"John", "J.Doe@X.Com", "Acme">>

\* the texts that end with a table row, plain rows before it
TableTexts ==
    { prefix \o <<row>> : prefix \in SeqsUpTo({PlainRow}, MaxLines - 1),
                          row \in TableLines }

\* before the call: the text extracted from the PDF
InitParse ==
    /\ variant = "24x7"
    /\ remaining_seconds = 0
    /\ text \in SeqsUpTo(SampleLines, MaxLines) \cup TableTexts
    /\ csv_contacts = <<>>
    /\ template_file = NoFile
    /\ dated = FALSE
    /\ delay_range = "ordered"
    /\ continuous = TRUE
    /\ config = "present"
    /\ contacts = <<>>
    /\ header = "email"
    /\ template = "valid"
    /\ Constructed

\* the call parse_hr_data_improved(text)
ParseHrData ==
    /\ ~parse_done
    /\ parse_done' = TRUE
    /\ parsed_contacts' = parse_hr_data_improved(text).contacts
    /\ skipped_lines' = parse_hr_data_improved(text).skipped_lines
    /\ UNCHANGED <<cfgv, sigv, delayv, text, structured_done,
                   structured_contacts, dedupv, testv, dayh, logFile, clockv, instv, pc,
                   batchv, callv, callh, batchh>>

\* the call parse_structured_hr_data(text) of auto_pdf_converter.py
ParseStructuredHrData ==
    /\ ~structured_done
    /\ structured_done' = TRUE
    /\ structured_contacts' = parse_structured_hr_data(text)
    /\ UNCHANGED <<cfgv, sigv, delayv, text, parse_done, parsed_contacts,
                   skipped_lines, dedupv, testv, dayh, logFile, clockv, instv, pc, batchv,
                   callv, callh, batchh>>

NextParse == ParseHrData \/ ParseStructuredHrData

SpecParse == InitParse /\ [][NextParse]_vars

(***************************************************************************)
(* improved_pdf_converter.py: save_contacts_to_csv.  A record is kept with *)
(* its email and its hr_name, which tells apart two records of one email.  *)
(***************************************************************************)

\* the number of records handed to save_contacts_to_csv
MaxRecords == 3

\* the records of the model
Records == [email : Addresses, hr_name : {"P", "Q"}]

\* a pass that stops removing after the first duplicate it finds
DedupFirstDuplicateOnly(r) ==
    IF r.duplicates = <<>> THEN r
    ELSE [unique_contacts |-> r.unique_contacts \o Tail(r.duplicates),
          duplicates |-> <<Head(r.duplicates)>>]

\* the key taken without lower()
email_raw(c) == c.email

\* email_lower = contact['email'].lower()
email_lower(c) == Lower(c.email)

RECURSIVE DedupLoop(_, _, _, _)
\* the loop over contacts: seen_emails, unique_contacts and duplicates as
\* they stand before the records cs still to visit
DedupLoop(cs, seen_emails, uniq, dups) ==
    IF cs = <<>> THEN [unique_contacts |-> uniq, duplicates |-> dups]
    ELSE IF email_lower(Head(cs)) \notin seen_emails
         THEN DedupLoop(Tail(cs), seen_emails \cup {email_lower(Head(cs))},
                        Append(uniq, Head(cs)), dups)
         ELSE DedupLoop(Tail(cs), seen_emails, uniq, Append(dups, Head(cs)))

\* what the pass hands on: the lists the loop has built
DedupResult(r) == r

\* the deduplication pass of save_contacts_to_csv on the records cs
Dedup(cs) == DedupResult(DedupLoop(cs, {}, <<>>, <<>>))

\* before the first call: the records to save
InitDedup ==
    /\ variant = "24x7"
    /\ remaining_seconds = 0
    /\ text = <<>>
    /\ csv_contacts \in SeqsUpTo(Records, MaxRecords)
    /\ template_file = NoFile
    /\ dated = FALSE
    /\ delay_range = "ordered"
    /\ continuous = TRUE
    /\ config = "present"
    /\ contacts = <<>>
    /\ header = "email"
    /\ template = "valid"
    /\ Constructed

\* one call of save_contacts_to_csv: the first on csv_contacts, the second
\* on the records the first wrote; an empty list returns False before the
\* pass and writes nothing
SaveContactsToCsv ==
    /\ saves < 2
    /\ saves' = saves + 1
    /\ LET arg == IF saves = 0 THEN csv_contacts ELSE unique_contacts
       IN IF arg = <<>>
          THEN UNCHANGED <<unique_contacts, duplicates>>
          ELSE /\ unique_contacts' = Dedup(arg).unique_contacts
               /\ duplicates' = Dedup(arg).duplicates
    /\ UNCHANGED <<cfgv, sigv, delayv, parsev, csv_contacts, testv, dayh, logFile, clockv,
                   instv, pc, batchv, callv, callh, batchh>>

NextDedup == SaveContactsToCsv

SpecDedup == InitDedup /\ [][NextDedup]_vars

(***************************************************************************)
(* test_system.py: test_email_template.  The template text is the sequence *)
(* of its words, a placeholder being one word.                             *)
(***************************************************************************)

\* the number of words of the template text
MaxTemplateLen == 3

\* the words of the model: a plain word, the three required placeholders
\* and a placeholder that is not required
TemplateWords ==
    {"Dear", "{company_name}", "{hr_name}", "{candidate_name}", "{position}"}


\* required_placeholders
required_placeholders == <<"{company_name}", "{hr_name}", "{candidate_name}">>

\* placeholder in template
InTemplate(placeholder, t) == \E i \in 1..Len(t) : t[i] = placeholder

\* a check that stops at the first absent placeholder
FirstMissingPlaceholder(t) ==
    LET absent == SelectSeq(required_placeholders,
                            LAMBDA ph : ~InTemplate(ph, t))
    IN IF absent = <<>> THEN <<>> ELSE <<absent[1]>>

\* missing_placeholders after the loop of lines 122-124
MissingPlaceholders(t) ==
    SelectSeq(required_placeholders, LAMBDA ph : ~InTemplate(ph, t))

\* before the call: the template file
InitTemplate ==
    /\ variant = "24x7"
    /\ remaining_seconds = 0
    /\ text = <<>>
    /\ csv_contacts = <<>>
    /\ template_file \in
           {[exists |-> TRUE, words |-> w] :
               w \in SeqsUpTo(TemplateWords, MaxTemplateLen)} \cup {NoFile}
    /\ dated = FALSE
    /\ delay_range = "ordered"
    /\ continuous = TRUE
    /\ config = "present"
    /\ contacts = <<>>
    /\ header = "email"
    /\ template = "valid"
    /\ Constructed

\* the call test_email_template()
TestEmailTemplate ==
    /\ template_result = "none"
    /\ IF ~template_file.exists
       THEN /\ template_result' = "False"
            /\ UNCHANGED missing_placeholders
       ELSE /\ missing_placeholders' = MissingPlaceholders(template_file.words)
            /\ template_result' =
                   IF MissingPlaceholders(template_file.words) = <<>>
                   THEN "True" ELSE "False"
    /\ UNCHANGED <<cfgv, sigv, delayv, parsev, dedupv, template_file, dayh, logFile,
                   clockv, instv, pc, batchv, callv, callh, batchh>>

NextTemplate == TestEmailTemplate

SpecTemplate == InitTemplate /\ [][NextTemplate]_vars

(* ======================= the claims ======================= *)
InCall == pc \in {"limit_check", "day_reset", "wait_hours", "connect",
                  "personalize", "sendmail", "log", "delay"}
Returned == pc \in {"batch_check", "cont_after"}

\* C1: an address that has an entry in the sent-log is never handed to the
\* transport again (the process is about to call sendmail for `contact`).
C1_SentLogExclusion ==
    pc = "sendmail" => contact \notin SentEmails(logFile.entries)

\* C2, as claimed: the successful sends of a run_batch invocation number at
\* most daily_limit - s, s being sent_today at its start, whatever time passes.
C2_HardStopWhateverTime ==
    Gated => batchSends <= daily_limit - batchStartSent

\* C2, amended: the same bound for a run_batch invocation during which no day
\* rollover reset of sent_today has happened.
C2_HardStopNoRollover ==
    (Gated /\ ~batchReset) => batchSends <= daily_limit - batchStartSent

C2_Witness ==
    /\ Gated /\ pc = "batch_end" /\ ~batchReset
    /\ batchStartSent >= 1
    /\ batchSends >= 1
    /\ batchSends = daily_limit - batchStartSent

\* C3: a send_email call made on a date later than last_sent_date is judged
\* against a fresh count, so its limit check does not refuse it, whatever
\* sent_today was on the earlier date.
C3_DayRollover ==
    [][(pc = "limit_check" /\ pc' # pc /\ today > last_sent_date)
          => outcome' # "limit"]_vars

\* C4: get_unsent_contacts returns exactly the contacts whose address is not
\* in the log, compared case-insensitively, in table order.
LoweredLog(log) == {Lower(e) : e \in SentEmails(log.entries)}
ExpectedUnsent(df, log) ==
    LET keep(e) == Lower(e) \notin LoweredLog(log)
    IN SelectSeq(df, keep)
C4_FilterUnsent ==
    get_unsent_contacts(contacts, logFile) = ExpectedUnsent(contacts, logFile)

\* C5: a send_email call made with sent_today >= daily_limit returns failure
\* and performs no connect, no send, no log append and no change of sent_today.
C5_LimitRefusal ==
    ((InCall \/ Returned) /\ callStartSent >= daily_limit) =>
        /\ pc \in {"limit_check", "batch_check", "cont_after"}
        /\ Returned => (result = FALSE /\ outcome = "limit")
        /\ callAttempts = 0
        /\ callSends = 0
        /\ logFile = callStartLog
        /\ sent_today = callStartSent

C5_Witness ==
    /\ Returned /\ outcome = "limit" /\ result = FALSE
    /\ callStartSent >= daily_limit

\* C6, as claimed: a send_email call that fails in the limit check, the
\* connect, the personalization or the transport send leaves sent_today and
\* the sent-log as they were when it was called.
C6_FailedCallChangesNothing ==
    (Returned /\ outcome \in {"limit", "connect", "template", "transport"}) =>
        (sent_today = callStartSent /\ logFile = callStartLog)

\* C6, amended: within a process sent_today changes only by +1 on a sendmail
\* that returned without error or by the reset to 0 on date advance; a call
\* failing in the limit check, the connect, the personalization or the send
\* leaves the log unchanged, and sent_today unchanged unless the call's own
\* day reset set it to 0.
C6_SentTodayFrame ==
    [][/\ (pc \notin {"idle", "stopped"} /\ sent_today' # sent_today) =>
             \/ pc = "sendmail" /\ pc' = "log" /\ sent_today' = sent_today + 1
             \/ today > last_sent_date /\ sent_today' = 0
       /\ (~Returned /\ Returned'
           /\ outcome' \in {"limit", "connect", "template", "transport"}) =>
             /\ logFile' = callStartLog'
             /\ \/ sent_today' = callStartSent'
                \/ callReset' /\ sent_today' = 0]_vars

C6_Witness ==
    /\ Returned /\ outcome = "connect"
    /\ callReset /\ callStartSent > 0 /\ sent_today = 0

\* C7: run_batch(n) selects at most n contacts, all unsent when it starts;
\* a failed send never takes it to its error handler; when it ends it has
\* attempted every contact of the batch unless sent_today reached daily_limit.
C7_BatchFailureTolerant ==
    Gated =>
        /\ Len(batch_contacts) <= batch_size
        /\ (pc = "batch_loop" /\ idx = 0) =>
              \A i \in 1..Len(batch_contacts) :
                  batch_contacts[i] \notin SentEmails(logFile.entries)
        /\ batch_error => ~email_col
        /\ (pc = "batch_end" /\ ~batch_error) =>
              (idx = Len(batch_contacts) \/ sent_today >= daily_limit)

C7_Witness ==
    /\ Gated /\ pc = "batch_end" /\ ~batch_error
    /\ idx = 2 /\ success_count = 0 /\ sent_today < daily_limit

\* C8: in run_continuous, after send_email failed for a contact while a
\* contact with another address is unsent, the next send_email call is for
\* another contact.
C8_FailureDoesNotBlock ==
    [][(/\ ~Gated
        /\ pc = "cont_loop" /\ pc' = "limit_check"
        /\ contact # NoContact /\ ~result
        /\ \E i \in 1..Len(contacts) :
              /\ contacts[i] # contact
              /\ contacts[i] \notin SentEmails(logFile.entries))
          => contact' # contact]_vars

\* C9: a send_email call makes at most 3 connect attempts and reports a
\* connect failure only after its 3rd failed attempt.
C9_ConnectRetryCeiling ==
    /\ callAttempts <= max_connection_attempts
    /\ (Returned /\ outcome = "connect") => callAttempts = max_connection_attempts

\* C10: the gated sender calls sendmail only at a moment inside business
\* hours of a working day.
C10_BusinessHourGating ==
    (Gated /\ pc = "sendmail") => is_business_hours(today, hour)

\* C11: with a template that names an unknown placeholder (the default template
\* the gated sender writes for a missing file included) the run is refused at
\* load time: no send_email call tries a transport connect or a send.
C11_TemplateRejectedAtLoad ==
    template \in {"unknown_placeholder", "default"} =>
        (callAttempts = 0 /\ callSends = 0)

\* C12: the gated process that found no configuration file and wrote the
\* default one halts: it tries no transport connect and no send.
C12_MissingConfigHalts ==
    config = "created" => (callAttempts = 0 /\ callSends = 0)

\* C13: without a column that standardizes to email the run fails at load,
\* with no connect, no send and no log entry; with the column written in any
\* letter case or with surrounding spaces the load succeeds and a run stops
\* only when nothing is unsent.
C13_MissingEmailColumn ==
    /\ header = "mail" =>
          /\ pc \in {"idle", "batch_end", "stopped"}
          /\ (pc = "batch_end") => batch_error
          /\ callAttempts = 0 /\ callSends = 0
          /\ logFile = [exists |-> FALSE, entries |-> <<>>]
    /\ header \in {"email", "EMAIL", " Email "} =>
          /\ ~batch_error
          /\ (~Gated /\ pc = "stopped" /\ config = "present"
                /\ template # "missing") =>
                  get_unsent_contacts(contacts, logFile) = <<>>

C13_Witness ==
    /\ header = " Email " /\ pc = "delay"
    /\ logFile.entries = <<"a@x.com">>

\* C14: the step that follows a successful sendmail is the log write, with no
\* sleep and no transport call in it, and the delay is reached only from the
\* log write that appended the entry of the contact.
C14_LogBeforeDelay ==
    [][/\ (pc = "log" /\ pc' # pc) =>
             /\ UNCHANGED <<clockv, callAttempts, callSends, smtp_server>>
             /\ \/ pc' = "delay"
                \/ Returned' /\ outcome' = "logwrite" /\ logFile' = logFile
       /\ (pc # "delay" /\ pc' = "delay") =>
             /\ pc = "log"
             /\ logFile'.entries = Append(logFile.entries, contact)]_vars

C14_Witness ==
    /\ pc = "delay" /\ Len(logFile.entries) = 2
    /\ logFile.entries[2] = contact

\* C15: once a KeyboardInterrupt has been delivered to the process, wherever
\* it stood, the process makes no further sendmail call.
C15_Cancellation ==
    [][interrupt # "none" => callSends' <= callSends]_vars

\* C16: when an iteration of run_continuous has found no unsent contact, the
\* next step of the process ends run_continuous, in both variants.
C16_EndsWhenDone ==
    [][(/\ pc \in {"batch_end", "cont_loop"}
        /\ continuous /\ email_col
        /\ get_unsent_contacts(contacts, logFile) = <<>>
        /\ pc' # pc)
          => pc' \in {"cont_end", "stopped"}]_vars

\* C17: the sent-log is append-only: in every step the entries it held are a
\* prefix of the entries it holds afterwards.
IsPrefix(old, new) ==
    /\ Len(old) <= Len(new)
    /\ SubSeq(new, 1, Len(old)) = old
C17_AppendOnly ==
    [][IsPrefix(logFile.entries, logFile'.entries)]_vars

\* C18: below the daily limit the delay returned is a value within 25% of
\* target = remaining_seconds / (daily_limit - sent_today), clamped into
\* [30, 300] and cut to whole seconds.
Clamp(x) == Max(30, Min(300, x))
ExpectedDelays(rs, re) ==
    Clamp((3 * rs) \div (4 * re))..Clamp((5 * rs) \div (4 * re))
C18_AdaptiveDelay ==
    delay # -1 =>
        delay \in ExpectedDelays(remaining_seconds, daily_limit - sent_today)


\* the syntactically valid addresses among the words of the sample lines
ValidAddresses == {"J.Doe@X.Com", "n@x.com", "o'brien@x.com"}

RECURSIVE FirstValidAddress(_)
\* the first valid address of a line, "" when it has none
FirstValidAddress(line) ==
    IF line = <<>> THEN ""
    ELSE IF Head(line) \in ValidAddresses THEN Head(line)
    ELSE FirstValidAddress(Tail(line))

\* C19: for every input line that contains a syntactically valid email
\* address, parse_hr_data_improved returns a contact record whose email
\* field equals that address exactly, case preserved, the first one when
\* the line has several, whatever the other words of the line are.
C19_EmailDetection ==
    parse_done =>
        \A i \in 1..Len(text) :
            FirstValidAddress(text[i]) # "" =>
                \E k \in 1..Len(parsed_contacts) :
                    parsed_contacts[k].email = FirstValidAddress(text[i])

\* the diagnostics "no email found" (letter case aside) recorded for the
\* line l
NoEmailDiagnostics(l) ==
    {k \in 1..Len(skipped_lines) :
        /\ skipped_lines[k].content = l
        /\ skipped_lines[k].reason = "No email found"}

\* C20: every input line with no match of the email pattern produces no
\* contact record and exactly one diagnostic with reason "no email found",
\* and every line is accounted for by exactly one output, a contact record
\* or a diagnostic.
C20_NoSilentDrop ==
    parse_done =>
        /\ Len(parsed_contacts) + Len(skipped_lines) = Len(text)
        /\ \A i \in 1..Len(text) :
               re_findall(text[i]) = <<>> =>
                   Cardinality(NoEmailDiagnostics(text[i]))
                       = Cardinality({j \in 1..Len(text) : text[j] = text[i]})


\* C21: the deduplication pass applied to its own output returns the same
\* sequence of records and finds no duplicate.
C21_DedupIdempotent ==
    [][saves = 1 =>
          /\ unique_contacts' = unique_contacts
          /\ duplicates' = <<>>]_vars

\* C21 witness: a second pass has run on the output of a first pass that
\* removed a record and kept two.
C21_Witness ==
    /\ saves = 2
    /\ Len(unique_contacts) = 2
    /\ Len(csv_contacts) = 3

\* the positions of cs that hold the first record of their lower-cased email
FirstOccurrences(cs) ==
    {i \in 1..Len(cs) :
        \A j \in 1..(i - 1) : Lower(cs[j].email) # Lower(cs[i].email)}

\* the k-th smallest element of a set of positions
KthOf(S, k) == CHOOSE i \in S : Cardinality({j \in S : j <= i}) = k

\* the records at the positions of FirstOccurrences, in original order
ExpectedKept(cs) ==
    [k \in 1..Cardinality(FirstOccurrences(cs)) |->
        cs[KthOf(FirstOccurrences(cs), k)]]

\* C23: the pass keeps exactly the first record of each lower-cased email,
\* in original order; no two kept records have emails equal ignoring case;
\* kept count plus duplicate count equals the input count.
C23_DedupKeepsFirst ==
    saves = 1 =>
        /\ unique_contacts = ExpectedKept(csv_contacts)
        /\ \A i, j \in 1..Len(unique_contacts) :
               i # j => Lower(unique_contacts[i].email)
                            # Lower(unique_contacts[j].email)
        /\ Len(unique_contacts) + Len(duplicates) = Len(csv_contacts)

\* C23 witness: two records whose emails differ only in letter case gave one
\* kept record, the first, and one duplicate.
C23_Witness ==
    /\ saves = 1
    /\ Len(csv_contacts) = 2
    /\ csv_contacts[1].email = "A@x.com"
    /\ csv_contacts[2].email = "a@x.com"
    /\ unique_contacts = <<csv_contacts[1]>>
    /\ duplicates = <<csv_contacts[2]>>


\* a record none of whose four fields is empty
AllFieldsFilled(c) ==
    c.hr_name # "" /\ c.position # "" /\ c.company # "" /\ c.email # ""

\* the records of parse_hr_data_improved have no empty field
ImprovedDefaultsTotal ==
    parse_done =>
        \A k \in 1..Len(parsed_contacts) : AllFieldsFilled(parsed_contacts[k])

\* C22: every contact record emitted by the extractors, parse_hr_data_improved
\* and parse_structured_hr_data, has a non-empty hr_name, position, company
\* and email, for every input line.
C22_DefaultsTotal ==
    /\ ImprovedDefaultsTotal
    /\ structured_done =>
           \A k \in 1..Len(structured_contacts) :
               AllFieldsFilled(structured_contacts[k])

\* the line of the worked example, one space between two words
ExampleLine ==
    <<"1", "John", "Smith", "Senior", "Recruiter", "john.smith@acme.com",
      "Acme", "Corp">>

\* C24: for the single-spaced line "1 John Smith Senior Recruiter
\* john.smith@acme.com Acme Corp", parse_hr_data_improved emits the record
\* with name "John Smith", title "Senior Recruiter", email
\* "john.smith@acme.com" and company "Acme Corp".
C24_WorkedExample ==
    (parse_done /\ text = <<ExampleLine>>) =>
        parsed_contacts = <<[hr_name |-> "John Smith",
                             position |-> "Senior Recruiter",
                             email |-> "john.smith@acme.com",
                             company |-> "Acme Corp"]>>

\* the segments of a line with a match, the serial number taken off
RowSegments(line) ==
    LET parts == Parts(line, re_findall(line)[1])
    IN IF IsSerial(parts) THEN Tail(parts) ELSE parts

\* the serial number of a line with a match, "" when it has none
RowSerial(line) ==
    LET parts == Parts(line, re_findall(line)[1])
    IN IF IsSerial(parts) THEN parts[1][1] ELSE ""

\* the segments before and after the sentinel segment of a line that has one
PreEmail(line) ==
    SubSeq(RowSegments(line), 1, EmailIndex(RowSegments(line)) - 1)
PostEmail(line) ==
    SubSeq(RowSegments(line), EmailIndex(RowSegments(line)) + 1,
           Len(RowSegments(line)))

\* a segment holding one of the role keywords
IsRole(seg) == \E i \in 1..Len(seg) : HasTitleWord(seg[i])

\* the name and the title of the decision table, as sequences of words
TableName(line) ==
    IF PreEmail(line) = <<>> THEN <<"HR", "Manager">>
    ELSE IF Len(PreEmail(line)) = 1 /\ IsRole(PreEmail(line)[1])
    THEN <<"HR", "Manager">>
    ELSE PreEmail(line)[1]
TableTitle(line) ==
    IF PreEmail(line) = <<>> THEN <<"HR", "Representative">>
    ELSE IF Len(PreEmail(line)) = 1
    THEN (IF IsRole(PreEmail(line)[1]) THEN PreEmail(line)[1]
          ELSE <<"HR", "Representative">>)
    ELSE JoinParts(Tail(PreEmail(line)))

\* Company_<serial, else line number>
CompanyDefault(line, line_num) ==
    "Company_" \o (IF RowSerial(line) # "" THEN RowSerial(line)
                   ELSE ToString(line_num))

\* the lines of the text all gave a contact, so that record k is of line k
RecordPerLine == parse_done /\ Len(parsed_contacts) = Len(text)

\* line k has a sentinel segment
Located(k) == EmailIndex(RowSegments(text[k])) > 0

\* C28 as stated: once the sentinel segment is located, the name, the title
\* and the company of the record are those of the decision table, the
\* company being the post-email segments joined by spaces, or
\* Company_<serial, else line number> when there are none.
C28_FieldTable ==
    RecordPerLine =>
        \A k \in 1..Len(text) :
            Located(k) =>
                /\ parsed_contacts[k].hr_name = JoinWords(TableName(text[k]))
                /\ parsed_contacts[k].position = JoinWords(TableTitle(text[k]))
                /\ parsed_contacts[k].company =
                       IF PostEmail(text[k]) = <<>>
                       THEN CompanyDefault(text[k], k)
                       ELSE JoinWords(JoinParts(PostEmail(text[k])))

\* a field without its leading number
Untrimmed(ws) == IF ws # <<>> /\ IsDigit(ws[1]) THEN Tail(ws) ELSE ws

\* a field of the table after the clean-up: its leading number trimmed, and
\* the default when nothing is left
Cleaned(ws, default) ==
    IF Untrimmed(ws) = <<>> THEN default ELSE JoinWords(Untrimmed(ws))

\* C28 amended: once the sentinel segment is located, the name, the title
\* and the company of the record are those of the decision table with a
\* leading number trimmed; a name or a title left empty takes its default,
\* and the company is Company_<serial, else line number> when there are no
\* post-email segments, when nothing is left of them after the trim, or
\* when they read "Unknown Company".
C28_FieldTableAfterCleanup ==
    RecordPerLine =>
        \A k \in 1..Len(text) :
            Located(k) =>
                /\ parsed_contacts[k].hr_name
                       = Cleaned(TableName(text[k]), "HR Manager")
                /\ parsed_contacts[k].position
                       = Cleaned(TableTitle(text[k]), "HR Representative")
                /\ parsed_contacts[k].company =
                       IF Cleaned(JoinParts(PostEmail(text[k])), "")
                              \in {"", "Unknown Company"}
                       THEN CompanyDefault(text[k], k)
                       ELSE Cleaned(JoinParts(PostEmail(text[k])), "")

\* C28 witness: the second line of a text, without a serial number, has one
\* pre-email segment, a number, and a post-email segment; its record has the
\* default name and the company read after the email.
C28_Witness ==
    /\ RecordPerLine
    /\ Len(text) = 2
    /\ text[2] = <<"34", "  ", "john.smith@acme.com", "  ", "Acme", "Corp">>
    /\ parsed_contacts[2].hr_name = "HR Manager"
    /\ parsed_contacts[2].company = "Acme Corp"


\* the required placeholders
Required == {"{company_name}", "{hr_name}", "{candidate_name}"}

\* the required placeholders absent from the template text
Absent ==
    {ph \in Required :
        \A i \in 1..Len(template_file.words) : template_file.words[i] # ph}

\* C25: for a template file that exists, the check fails exactly when at
\* least one required placeholder is absent from the text, it reports all the
\* absent required placeholders together as one list, and a template that
\* contains every required placeholder is accepted.
C25_PlaceholderValidation ==
    (template_result # "none" /\ template_file.exists) =>
        /\ (template_result = "False") <=> (Absent # {})
        /\ {missing_placeholders[i] : i \in 1..Len(missing_placeholders)} = Absent
        /\ Len(missing_placeholders) = Cardinality(Absent)
        /\ (Absent = {}) => (template_result = "True")

\* C25 witness: a template without two of the required placeholders was
\* refused and both were reported.
C25_Witness ==
    /\ template_result = "False"
    /\ template_file = [exists |-> TRUE, words |-> <<"Dear", "{hr_name}">>]
    /\ missing_placeholders = <<"{company_name}", "{candidate_name}">>


\* no date has more than daily_limit transport sends
WithinDailyLimit == \A d \in 0..MaxDay : sentOn[d] <= daily_limit

\* C26: inside one process of either variant, the number of transport sends
\* made on any one calendar date never exceeds daily_limit, however the clock
\* advances between the limit check, the connect and the send.
C26_DailyLimitOneProcess == ~restarted => WithinDailyLimit

\* C27: over any sequence of separate run_batch processes that share the
\* contact table and the sent-log, the number of transport sends made on any
\* one calendar date never exceeds daily_limit.
C27_DailyLimitAcrossRuns == (Gated /\ ~continuous) => WithinDailyLimit


\* run_continuous has ended and no contact of the table is left unsent
CampaignCompleted ==
    pc = "stopped" /\ get_unsent_contacts(contacts, logFile) = <<>>

\* C29: when the transport succeeds and time keeps advancing, run_continuous
\* of the 24x7 variant eventually sends to every contact of the table and
\* terminates, also for a table with more contacts than daily_limit.
C29_CampaignCompletes == <>CampaignCompleted


\* during the call that has returned, the transport send succeeded and
\* sent_today was incremented (one step of send_email does both)
CallSent == callSent

\* during the call that has returned, one entry for the contact was appended
\* to the log
CallLogged ==
    logFile.entries = Append(callStartLog.entries, contact)

\* C30: send_email returns True if and only if, during the call, the
\* transport send succeeded, sent_today was incremented and one log entry for
\* the contact was appended; it returns False if and only if none of the
\* three happened.
C30_ResultMatches ==
    Returned =>
        /\ (result = TRUE) <=> (CallSent /\ CallLogged)
        /\ (result = FALSE) <=> (~CallSent /\ ~CallLogged)

====
